---------------------------- MODULE Spec2Model ----------------------------
(***************************************************************************)
(* PirateSurfGame: ship controls, application start-up, upgrade pickup,    *)
(* bubble wash and wake trail, modelled from the JavaScript sources.       *)
(*                                                                         *)
(* Numbers.  The program computes with IEEE doubles.  Speeds, lengths and  *)
(* lifetimes are modelled in fixed point, 1 unit = 0.001 (so maxSpeed 10.0 *)
(* is 10000), and frame times in milliseconds.  A product x * f is rounded *)
(* away from zero (Scaled), so that a step the program takes with a        *)
(* non-zero real amount is never lost to rounding: what decays in the      *)
(* program decays in the model, what grows grows.                          *)
(***************************************************************************)
EXTENDS Integers, Sequences, FiniteSets, TLC

(***************************************************************************)
(* Bounds of the model.                                                    *)
(***************************************************************************)
\* key events (keydown/keyup) delivered in one run
MaxKeyEvents == 3
\* frames rendered in a run of bounded length
MaxFrames == 3
\* frames rendered while W or S is held
MaxHeldFrames == 14
\* key events delivered in a run of any length
MaxSpeedKeyEvents == 2
\* magnitude at which a speed is treated as having run away (stands for the
\* double's overflow to Infinity, where the program's value stays for ever)
SpeedCap == 12000
\* detection callbacks and direct calls fired on one upgrade
MaxFirings == 3
\* BubbleSystem: options.maxBubbles, which is also the size of the sphere pool
MaxBubblesOption == 4
\* frames in which BubbleSystem.update runs
MaxBubbleFrames == 5
\* frames in which WaterTrail.update runs
MaxTrailFrames == 4
\* detection callbacks fired on the trigger meshes in one run
MaxTriggerEvents == 4

(***************************************************************************)
(* Fixed-point helpers.                                                    *)
(***************************************************************************)
Abs(x) == IF x < 0 THEN -x ELSE x

Min(a, b) == IF a < b THEN a ELSE b

Max(a, b) == IF a > b THEN a ELSE b

\* n / d rounded away from zero (d > 0)
DivAway(n, d) == IF n >= 0 THEN (n + d - 1) \div d ELSE -(((-n) + d - 1) \div d)

\* x * (permille / 1000)
Scaled(x, permille) == DivAway(x * permille, 1000)

\* a value that has run away saturates (Infinity in the program)
Saturate(x) == IF x > SpeedCap THEN SpeedCap ELSE IF x < -SpeedCap THEN -SpeedCap ELSE x

\* BABYLON.Scalar.Lerp(start, end, amount) = start + (end - start) * amount,
\* not clamped: an amount above 1 overshoots the end value.
Lerp(start, end, amountPermille) == start + Scaled(end - start, amountPermille)


(***************************************************************************)
(* State.                                                                  *)
(***************************************************************************)
VARIABLES
    \* ---- ShipControls (src/inputControls.js) ----
    rev,                \* which of the two ShipControls revisions is in use
    constructed,        \* new ShipControls(...) has run
    options,            \* the options object given to the constructor
    enabled,            \* this.enabled
    settings,           \* this.maxSpeed, this.speed, this.acceleration, ...
    keys,               \* this.keys
    targetSpeed,        \* this.targetSpeed
    currentSpeed,       \* this.currentSpeed
    currentRotationSpeed, \* this.currentRotationSpeed
    angularVelocity,    \* this.angularVelocity
    jumpEnabled,        \* this.jumpEnabled
    isJumping,          \* this.isJumping
    jumpForce,          \* this.jumpForce
    jumpForceActive,    \* this.jumpForceActive
    impulses,           \* physics.applyImpulse calls made by handleJump
    isShipReady,        \* app.js: let isShipReady
    \* ---- counters that bound the model ----
    keyEvents,          \* key events delivered
    frames,             \* frames rendered (runs of bounded length)
    heldFrames,         \* frames rendered while W or S was held
    \* ---- application start-up (src/app.js) and ModelLoader ----
    loaderRev,          \* which ModelLoader revision is in use
    boot,               \* where the DOMContentLoaded handler stands
    loadModel,          \* per object: the state of its loadModel() promise
    calls,              \* per loadModelsFromJson call: the state of its promise
    mainModel,          \* ModelLoader.mainModel
    pop,                \* per object: pop-in animation and enable timer
    renderLoops,        \* engine.runRenderLoop calls made
    \* ---- upgrades (ModelLoader) ----
    isCollected,        \* upgradeMesh.isCollected
    isProcessingCollision, \* the trigger box observer's flag
    observerActive,     \* the trigger box observer is registered
    explosions,         \* createExplosionEffect calls, per upgrade
    messages,           \* window.showMessage calls by collectUpgrade, per upgrade
    enableJumpCalls,    \* window.enableJumpAbility calls, per upgrade
    disposals,          \* upgradeMesh.dispose calls, per upgrade
    disposeTimer,       \* the 1000 ms removal timer is pending
    cleanupTimer,       \* the 100 ms trigger clean-up timer is pending
    resetTimer,         \* the 1000 ms flag reset timer is pending
    fired,              \* callbacks and direct calls fired, per upgrade
    \* ---- BubbleSystem (src/unnamed/part_003) ----
    leftBubbles,        \* this.leftBubbles
    rightBubbles,       \* this.rightBubbles
    spherePool,         \* this.spherePool
    materialAlpha,      \* alpha of each material
    timeSinceLastEmit,  \* this.timeSinceLastEmit (microseconds)
    bubbleFrames,       \* update() calls made
    \* ---- WaterTrail (src/unnamed/part_000) ----
    trailLength,        \* this.trail.length
    trailEnabled,       \* this.trail.isEnabled()
    trailFrames,        \* update() calls made
    \* ---- trigger meshes (src/modelLoader.js setupTrigger) ----
    triggerMesh,        \* per trigger mesh: its fields, callbacks and timers
    triggerEvents       \* detection callbacks fired

shipVars == <<rev, constructed, options, enabled, settings, keys, targetSpeed,
              currentSpeed, currentRotationSpeed, angularVelocity, jumpEnabled,
              isJumping, jumpForce, jumpForceActive, impulses, isShipReady>>

boundVars == <<keyEvents, frames, heldFrames>>

loadVars == <<loaderRev, boot, loadModel, calls, mainModel, pop, renderLoops>>

upgradeVars == <<isCollected, isProcessingCollision, observerActive, explosions,
                 messages, enableJumpCalls, disposals, disposeTimer,
                 cleanupTimer, resetTimer, fired>>

bubbleVars == <<leftBubbles, rightBubbles, spherePool, materialAlpha,
                timeSinceLastEmit, bubbleFrames>>

trailVars == <<trailLength, trailEnabled, trailFrames>>

triggerVars == <<triggerMesh, triggerEvents>>

\* what the ship's own handlers never touch
sceneVars == <<loadVars, upgradeVars, bubbleVars, trailVars, triggerVars>>

vars == <<shipVars, boundVars, sceneVars>>

(***************************************************************************)
(* ShipControls: constructor.                                              *)
(***************************************************************************)
\* The names of this.keys; " " (space) is stored under "space".
KeyNames == {"w", "a", "s", "d", "shift", "space"}

\* evt.key.toLowerCase() of the key events delivered
EventKeys == {"w", "a", "s", " "}

\* engine.getDeltaTime() in ms: a 60 fps frame and a 10 fps frame
DeltaTimes == {16, 100}

\* a steady 60 fps
SteadyDeltaTimes == {16}

NoOptions == [enabled |-> TRUE]

\* The options loadShip passes to new ShipControls.
LoadShipOptions ==
    [speed |-> 1000, rotationSpeed |-> 1000, maxSpeed |-> 30000,
     acceleration |-> 700, deceleration |-> 950,
     rotationAcceleration |-> 100, rotationDeceleration |-> 900,
     baseRotationSpeed |-> 800, enabled |-> FALSE]

\* The movement and rotation settings the constructor assigns.  It reads
\* nothing of its options but options.enabled.
ConstructorSettings(opts) ==
    [acceleration |-> 500, deceleration |-> 980, maxSpeed |-> 10000,
     speed |-> 800, rotationAcceleration |-> 100,
     rotationDeceleration |-> 950, maxRotationSpeed |-> 2000,
     baseRotationSpeed |-> 1000, rotationSpeed |-> 60]

\* this.enabled = options.enabled !== false
ConstructorEnabled(opts) == ~("enabled" \in DOMAIN opts /\ opts.enabled = FALSE)

\* this.jumpPower, as the jump-capable constructor leaves it
JumpPower == 150000

NoKeys == [k \in KeyNames |-> FALSE]

\* new ShipControls(scene, mainModel, opts): the fields the constructor assigns
ShipControlsConstructor(opts) ==
    /\ constructed' = TRUE
    /\ options' = opts
    /\ enabled' = ConstructorEnabled(opts)
    /\ settings' = ConstructorSettings(opts)
    /\ keys' = NoKeys
    /\ targetSpeed' = 0
    /\ currentSpeed' = 0
    /\ currentRotationSpeed' = 0
    /\ angularVelocity' = 0
    /\ jumpEnabled' = FALSE
    /\ isJumping' = FALSE
    /\ jumpForce' = 0
    /\ jumpForceActive' = FALSE

\* loadShip: window.shipControls = new ShipControls(scene, mainModel, {...})
Construct ==
    /\ ~constructed
    /\ ShipControlsConstructor(LoadShipOptions)
    /\ UNCHANGED <<rev, impulses, isShipReady, boundVars, sceneVars>>


(***************************************************************************)
(* ShipControls: key handlers (attachControls) and handleJump.             *)
(***************************************************************************)
\* handleJump without its jumpEnabled test
CanJumpUnlocked(onSurface) == ~isJumping /\ onSurface

\* handleJump's test: jump enabled, not jumping already, on a surface.
\* onSurface is isOnSurface()'s answer (the physics engine's business).
CanJump(onSurface) == jumpEnabled /\ ~isJumping /\ onSurface

\* onKeyDown.  Revision 1 knows no space key.  Neither revision looks at
\* this.enabled.
KeyDown(key, onSurface) ==
    /\ constructed
    /\ keyEvents < MaxKeyEvents
    /\ keyEvents' = keyEvents + 1
    /\ LET isSpace == rev = 2 /\ key = " "
           newKeys == IF key \in DOMAIN keys /\ key # "space"
                         THEN [keys EXCEPT ![key] = TRUE]
                      ELSE IF isSpace THEN [keys EXCEPT !["space"] = TRUE]
                      ELSE keys
           turn == Scaled(settings.rotationSpeed, 800)
       IN  /\ keys' = newKeys
           /\ IF isSpace /\ CanJump(onSurface)
                 THEN /\ isJumping' = TRUE
                      /\ jumpForce' = JumpPower
                      /\ jumpForceActive' = TRUE
                      /\ impulses' = impulses + 1
                 ELSE UNCHANGED <<isJumping, jumpForce, jumpForceActive, impulses>>
           /\ angularVelocity' = angularVelocity
                                   + (IF newKeys["a"] THEN turn ELSE 0)
                                   - (IF newKeys["d"] THEN turn ELSE 0)
    /\ UNCHANGED <<rev, constructed, options, enabled, settings, targetSpeed,
                   currentSpeed, currentRotationSpeed, jumpEnabled, isShipReady,
                   frames, heldFrames, sceneVars>>

\* onKeyUp
KeyUp(key) ==
    /\ constructed
    /\ keyEvents < MaxKeyEvents
    /\ keyEvents' = keyEvents + 1
    /\ keys' = IF key \in DOMAIN keys /\ key # "space"
                  THEN [keys EXCEPT ![key] = FALSE]
               ELSE IF rev = 2 /\ key = " " THEN [keys EXCEPT !["space"] = FALSE]
               ELSE keys
    /\ UNCHANGED <<rev, constructed, options, enabled, settings, targetSpeed,
                   currentSpeed, currentRotationSpeed, angularVelocity,
                   jumpEnabled, isJumping, jumpForce, jumpForceActive, impulses,
                   isShipReady, frames, heldFrames, sceneVars>>

(***************************************************************************)
(* ShipControls.update, called by the render loop with the engine's frame  *)
(* time dt (ms).                                                           *)
(***************************************************************************)
\* 1 - Math.pow(deceleration, deltaTime * 60), in permille
DecelAmount(deceleration, dt) ==
    CASE deceleration = 980 /\ dt = 16 -> 19
      [] deceleration = 980 /\ dt = 100 -> 114
      [] deceleration = 950 /\ dt = 16 -> 48
      [] deceleration = 950 /\ dt = 100 -> 265

\* "Update target speed based on input"
RevOneTargetSpeed(t) ==
    IF keys["w"]
       THEN IF ~(t >= settings.maxSpeed) THEN t + settings.speed ELSE t
    ELSE IF keys["s"]
       THEN IF ~(t <= -(settings.maxSpeed \div 2)) THEN t - settings.speed \div 2 ELSE t
    ELSE IF t > 0 THEN t - Scaled(t, 10)
    ELSE IF t < 0 THEN t + Scaled(t, 10)
    ELSE t

RevTwoTargetSpeed(t) ==
    IF keys["w"]
       THEN IF ~(t >= settings.maxSpeed) THEN t + settings.speed ELSE t
    ELSE IF keys["s"]
       THEN IF ~(t <= -(settings.maxSpeed \div 2)) THEN t - settings.speed \div 2 ELSE t
    ELSE IF t > 0 THEN t - Scaled(settings.speed, 10)
    ELSE IF t < 0 THEN t + Scaled(settings.speed, 10)
    ELSE t

NextTargetSpeed(t) == Saturate(IF rev = 1 THEN RevOneTargetSpeed(t) ELSE RevTwoTargetSpeed(t))

\* "Apply acceleration/deceleration"
NextCurrentSpeed(c, t, dt) ==
    IF Abs(t) > 10
       THEN Saturate(Lerp(c, t, (settings.acceleration * dt * 30) \div 1000))
       ELSE LET d == Lerp(c, 0, DecelAmount(settings.deceleration, dt))
            IN  IF Abs(d) < 10 THEN 0 ELSE d

\* "Handle rotation input" and "Apply rotation acceleration/deceleration"
NextRotationSpeed(r, dt) ==
    LET targetRotationSpeed == IF keys["a"] THEN -settings.maxRotationSpeed
                               ELSE IF keys["d"] THEN settings.maxRotationSpeed
                               ELSE 0
    IN  IF Abs(targetRotationSpeed) > 10
           THEN Lerp(r, Scaled(targetRotationSpeed, settings.baseRotationSpeed),
                     (settings.rotationAcceleration * dt * 60) \div 1000)
           ELSE LET d == r - Scaled(r, 1000 - settings.rotationDeceleration)
                IN  IF Abs(d) < 1 THEN 0 ELSE d

\* update().  forceOver: the 0.5 s force phase of a jump has passed;
\* landed: the ship moves downward and isOnSurface() holds.
Update(dt, forceOver, landed) ==
    /\ constructed
    /\ isShipReady
    /\ enabled
    /\ currentRotationSpeed' = NextRotationSpeed(currentRotationSpeed, dt)
    /\ targetSpeed' = NextTargetSpeed(targetSpeed)
    /\ currentSpeed' = NextCurrentSpeed(currentSpeed, targetSpeed', dt)
    /\ IF rev = 2 /\ isJumping
          THEN /\ isJumping' = ~landed
               /\ jumpForceActive' = (jumpForceActive /\ ~forceOver /\ ~landed)
               /\ jumpForce' = IF landed THEN 0 ELSE jumpForce
          ELSE UNCHANGED <<isJumping, jumpForceActive, jumpForce>>
    /\ UNCHANGED <<rev, constructed, options, enabled, settings, keys,
                   angularVelocity, jumpEnabled, impulses, isShipReady, keyEvents,
                   sceneVars>>

\* The render loop's callback, if (isShipReady) shipControls.update(), in a
\* run of at most MaxFrames frames.
Frame(dt, forceOver, landed) ==
    /\ Update(dt, forceOver, landed)
    /\ frames < MaxFrames
    /\ frames' = frames + 1
    /\ UNCHANGED heldFrames

\* The same callback in a run of any length at 60 fps, of which at most
\* MaxHeldFrames frames have W or S held.
SpeedFrame(dt) ==
    /\ Update(dt, FALSE, FALSE)
    /\ IF keys["w"] \/ keys["s"]
          THEN heldFrames < MaxHeldFrames /\ heldFrames' = heldFrames + 1
          ELSE UNCHANGED heldFrames
    /\ UNCHANGED frames

(***************************************************************************)
(* app.js: the two global functions.                                       *)
(***************************************************************************)
\* window.enableShipControls, past its test of isShipReady: the controls are
\* enabled only if they exist by now.
EnableShipControlsBody ==
    /\ isShipReady' = TRUE
    /\ enabled' = IF constructed THEN TRUE ELSE enabled

\* window.enableShipControls
EnableShipControls ==
    /\ ~isShipReady
    /\ EnableShipControlsBody
    /\ UNCHANGED <<rev, constructed, options, settings, keys, targetSpeed,
                   currentSpeed, currentRotationSpeed, angularVelocity,
                   jumpEnabled, isJumping, jumpForce, jumpForceActive, impulses,
                   boundVars, sceneVars>>

\* window.enableJumpAbility: if (shipControls) shipControls.jumpEnabled = true
EnableJumpAbilityBody == jumpEnabled' = IF constructed THEN TRUE ELSE jumpEnabled

EnableJumpAbility ==
    /\ EnableJumpAbilityBody
    /\ UNCHANGED <<rev, constructed, options, enabled, settings, keys,
                   targetSpeed, currentSpeed, currentRotationSpeed,
                   angularVelocity, isJumping, jumpForce, jumpForceActive,
                   impulses, isShipReady, boundVars, sceneVars>>

(***************************************************************************)
(* Application start-up: the DOMContentLoaded handler loads the world      *)
(* (loadTestScene), then the ship (loadShip), both through the same        *)
(* ModelLoader.  Imports, pop-in animations and timers complete in any     *)
(* order the browser produces.                                             *)
(***************************************************************************)
\* "modelLoader": the ModelLoader of src/modelLoader.js;
\* "part_004": the trigger-box ModelLoader of src/unnamed/part_004.
LoaderRevs == {"modelLoader", "part_004"}

\* objects of the world file, in the order of its objects array
WorldObjects == {"w0", "w1"}

\* the one object of defaultShipConfig
ShipObjects == {"s0"}

Objects == WorldObjects \cup ShipObjects

\* the two loadModelsFromJson calls
Calls == {"world", "ship"}

CallOf(o) == IF o \in WorldObjects THEN "world" ELSE "ship"

ObjectsOf(c) == IF c = "world" THEN WorldObjects ELSE ShipObjects

\* loadModel: const isMainModel = index === 0, in every loadModelsFromJson call
IsMainModel(o) == o \in {"w0", "s0"}

\* What loadModel's promise settles to when the import failed or gave no
\* meshes.  src/modelLoader.js: the catch block reads modelPath, which is
\* declared with let inside the try block, so the catch block throws a
\* ReferenceError and the promise rejects.  part_004: the catch block logs
\* modelData.path and returns null.
FailedLoadModel == IF loaderRev = "modelLoader" THEN "rejected" ELSE "null"

\* loadTestScene: fetch('Assets/Worlds/testscene.json') answers.
WorldFetched(ok) ==
    /\ boot = "fetch"
    /\ IF ok
          THEN /\ boot' = "world"
               /\ loadModel' = [o \in Objects |->
                                   IF o \in WorldObjects THEN "pending" ELSE loadModel[o]]
               /\ calls' = [calls EXCEPT !["world"] = "pending"]
          ELSE /\ boot' = "check"
               /\ UNCHANGED <<loadModel, calls>>
    /\ UNCHANGED <<loaderRev, mainModel, pop, renderLoops, shipVars, boundVars,
                   upgradeVars, bubbleVars, trailVars, triggerVars>>

\* loadShip with a catch block that makes the fallback box but does not
\* call engine.runRenderLoop
ShipFileCheckedNoRenderLoop(exists) ==
    /\ boot = "check"
    /\ IF exists
          THEN /\ boot' = "ship"
               /\ loadModel' = [o \in Objects |->
                                   IF o \in ShipObjects THEN "pending" ELSE loadModel[o]]
               /\ calls' = [calls EXCEPT !["ship"] = "pending"]
          ELSE /\ boot' = "done"
               /\ UNCHANGED <<loadModel, calls>>
    /\ UNCHANGED <<loaderRev, mainModel, pop, renderLoops, shipVars, boundVars,
                   upgradeVars, bubbleVars, trailVars, triggerVars>>

\* loadShip: checkFileExists(modelPath) answers.  A missing file throws, and
\* loadShip's catch block starts the render loop on a fallback box.
ShipFileChecked(exists) ==
    /\ boot = "check"
    /\ IF exists
          THEN /\ boot' = "ship"
               /\ loadModel' = [o \in Objects |->
                                   IF o \in ShipObjects THEN "pending" ELSE loadModel[o]]
               /\ calls' = [calls EXCEPT !["ship"] = "pending"]
               /\ UNCHANGED renderLoops
          ELSE /\ boot' = "done"
               /\ renderLoops' = renderLoops + 1
               /\ UNCHANGED <<loadModel, calls>>
    /\ UNCHANGED <<loaderRev, mainModel, pop, shipVars, boundVars,
                   upgradeVars, bubbleVars, trailVars, triggerVars>>

\* SceneLoader.ImportMeshAsync of object o settles, and with it everything
\* that runs before the next timer or animation frame: the rest of
\* loadModel (configureModel, which starts the pop-in animation), Promise.all
\* and loadModelsFromJson if this settles them, and then the caller:
\* loadTestScene returns to the DOMContentLoaded handler, which calls
\* loadShip; loadShip creates the ShipControls and starts the render loop, or
\* its catch block starts the render loop on a fallback box.
ImportSettles(o, ok) ==
    /\ loadModel[o] = "pending"
    /\ LET c == CallOf(o)
           outcome == IF ok THEN "mesh" ELSE FailedLoadModel
           newLoadModel == [loadModel EXCEPT ![o] = outcome]
           newMainModel == IF ok /\ IsMainModel(o) THEN o ELSE mainModel
           rejects == calls[c] = "pending" /\ outcome = "rejected"
           resolves == /\ calls[c] = "pending"
                       /\ outcome # "rejected"
                       /\ \A p \in ObjectsOf(c) : newLoadModel[p] \in {"mesh", "null"}
           creates == c = "ship" /\ resolves /\ newMainModel # "none"
       IN  /\ loadModel' = newLoadModel
           /\ mainModel' = newMainModel
           /\ pop' = IF ok THEN [pop EXCEPT ![o] = "running"] ELSE pop
           /\ calls' = IF rejects THEN [calls EXCEPT ![c] = "rejected"]
                       ELSE IF resolves THEN [calls EXCEPT ![c] = "resolved"]
                       ELSE calls
           /\ boot' = IF rejects \/ resolves
                         THEN (IF c = "world" THEN "check" ELSE "done")
                         ELSE boot
           /\ renderLoops' = IF c = "ship" /\ (rejects \/ resolves)
                                THEN renderLoops + 1
                                ELSE renderLoops
           /\ IF creates
                 THEN /\ ShipControlsConstructor(LoadShipOptions)
                      /\ UNCHANGED <<rev, impulses, isShipReady>>
                 ELSE UNCHANGED shipVars
    /\ UNCHANGED <<loaderRev, boundVars, upgradeVars, bubbleVars, trailVars, triggerVars>>

\* animatePop reaches progress 1 (0.8 s after configureModel).  For a main
\* model it sets the 100 ms timer that calls window.enableShipControls.
PopFinishes(o) ==
    /\ pop[o] = "running"
    /\ pop' = [pop EXCEPT ![o] = IF IsMainModel(o) THEN "timer" ELSE "done"]
    /\ UNCHANGED <<loaderRev, boot, loadModel, calls, mainModel, renderLoops,
                   shipVars, boundVars, upgradeVars, bubbleVars, trailVars, triggerVars>>

\* The 100 ms timer fires: window.enableShipControls()
PopTimerFires(o) ==
    /\ pop[o] = "timer"
    /\ pop' = [pop EXCEPT ![o] = "done"]
    /\ IF ~isShipReady
          THEN EnableShipControlsBody
          ELSE UNCHANGED <<isShipReady, enabled>>
    /\ UNCHANGED <<rev, constructed, options, settings, keys, targetSpeed,
                   currentSpeed, currentRotationSpeed, angularVelocity,
                   jumpEnabled, isJumping, jumpForce, jumpForceActive, impulses>>
    /\ UNCHANGED <<loaderRev, boot, loadModel, calls, mainModel, renderLoops,
                   boundVars, upgradeVars, bubbleVars, trailVars, triggerVars>>

(***************************************************************************)
(* Upgrades: collectUpgrade and the callbacks that call it.                *)
(***************************************************************************)
Upgrades == {"u1", "u2"}

\* modelData.properties of a jump upgrade in the world file
UpgradeProperties == [k \in {"upgrade-jump"} |-> "1"]

\* configureModel: root.metadata = {}; Object.assign(root.metadata,
\* modelData.properties) copies the properties' own keys into the metadata.
MeshMetadata == UpgradeProperties

\* part_004 collectUpgrade: upgradeMesh.metadata.properties exists and has
\* 'upgrade-jump'
HasJumpProperties ==
    IF "properties" \in DOMAIN MeshMetadata
       THEN "upgrade-jump" \in DOMAIN MeshMetadata["properties"]
       ELSE FALSE

\* collectUpgrade with its "already collected" test taken out
NeverCollected(flag) == FALSE

\* collectUpgrade: if (upgradeMesh.isCollected) return
AlreadyCollected(flag) == flag

\* What collectUpgrade does past its test.  throws: createExplosionEffect
\* throws, and the try block's remaining statements are skipped.
CollectEffects(u, throws) ==
    /\ explosions' = [explosions EXCEPT ![u] = @ + 1]
    /\ IF loaderRev = "modelLoader"
          THEN \* explosion, hide, message, enableJumpAbility, removal timer
               /\ messages' = IF throws THEN messages
                              ELSE [messages EXCEPT ![u] = @ + 1]
               /\ enableJumpCalls' = IF throws THEN enableJumpCalls
                                     ELSE [enableJumpCalls EXCEPT ![u] = @ + 1]
               /\ IF throws THEN UNCHANGED jumpEnabled ELSE EnableJumpAbilityBody
               /\ disposeTimer' = IF throws THEN disposeTimer
                                  ELSE [disposeTimer EXCEPT ![u] = TRUE]
               /\ UNCHANGED disposals
          ELSE \* enableJumpAbility (by the metadata), explosion, hide, dispose
               /\ enableJumpCalls' = IF HasJumpProperties
                                        THEN [enableJumpCalls EXCEPT ![u] = @ + 1]
                                        ELSE enableJumpCalls
               /\ IF HasJumpProperties THEN EnableJumpAbilityBody
                                       ELSE UNCHANGED jumpEnabled
               /\ disposals' = IF throws THEN disposals
                               ELSE [disposals EXCEPT ![u] = @ + 1]
               /\ UNCHANGED <<messages, disposeTimer>>

\* collectUpgrade(upgradeMesh), entered with the isCollected flags as they
\* stand at the call
CollectUpgrade(u, collected, throws) ==
    IF AlreadyCollected(collected[u])
       THEN /\ isCollected' = collected
            /\ UNCHANGED <<explosions, messages, enableJumpCalls, disposals,
                           disposeTimer, jumpEnabled>>
       ELSE /\ isCollected' = [collected EXCEPT ![u] = TRUE]
            /\ CollectEffects(u, throws)

\* what a detection callback leaves alone
Detected(u) ==
    /\ fired[u] < MaxFirings
    /\ fired' = [fired EXCEPT ![u] = @ + 1]
    /\ UNCHANGED <<rev, constructed, options, enabled, settings, keys,
                   targetSpeed, currentSpeed, currentRotationSpeed,
                   angularVelocity, isJumping, jumpForce, jumpForceActive,
                   impulses, isShipReady>>
    /\ UNCHANGED <<boundVars, loadVars, bubbleVars, trailVars, triggerVars>>

\* src/modelLoader.js createUpgradeTrigger: the OnIntersectionEnterTrigger action
IntersectionEnter(u, throws) ==
    /\ loaderRev = "modelLoader"
    /\ Detected(u)
    /\ IF ~isCollected[u]
          THEN CollectUpgrade(u, isCollected, throws)
          ELSE UNCHANGED <<isCollected, explosions, messages, enableJumpCalls,
                           disposals, disposeTimer, jumpEnabled>>
    /\ UNCHANGED <<isProcessingCollision, observerActive, cleanupTimer, resetTimer>>

\* setupUpgradeCollisions: the registerOnPhysicsCollide callback
PhysicsCollide(u, throws) ==
    /\ Detected(u)
    /\ IF ~isCollected[u]
          THEN CollectUpgrade(u, isCollected, throws)
          ELSE UNCHANGED <<isCollected, explosions, messages, enableJumpCalls,
                           disposals, disposeTimer, jumpEnabled>>
    /\ UNCHANGED <<isProcessingCollision, observerActive, cleanupTimer, resetTimer>>

\* a direct call of modelLoader.collectUpgrade(upgradeMesh)
DirectCollect(u, throws) ==
    /\ Detected(u)
    /\ CollectUpgrade(u, isCollected, throws)
    /\ UNCHANGED <<isProcessingCollision, observerActive, cleanupTimer, resetTimer>>

\* part_004 createUpgradeTrigger: the onBeforeRenderObservable observer, in a
\* frame where the trigger box intersects the player.  It sets isCollected
\* itself and only then calls collectUpgrade.
TriggerObserver(u, throws) ==
    /\ loaderRev = "part_004"
    /\ observerActive[u]
    /\ ~isProcessingCollision[u]
    /\ Detected(u)
    /\ isProcessingCollision' = [isProcessingCollision EXCEPT ![u] = TRUE]
    /\ IF ~isCollected[u]
          THEN /\ CollectUpgrade(u, [isCollected EXCEPT ![u] = TRUE], throws)
               /\ cleanupTimer' = [cleanupTimer EXCEPT ![u] = TRUE]
          ELSE UNCHANGED <<isCollected, explosions, messages, enableJumpCalls,
                           disposals, disposeTimer, jumpEnabled, cleanupTimer>>
    /\ resetTimer' = [resetTimer EXCEPT ![u] = TRUE]
    /\ UNCHANGED observerActive

\* what a timer of the upgrade code leaves alone
TimerFrame ==
    UNCHANGED <<shipVars, boundVars, loadVars, bubbleVars, trailVars, triggerVars,
                isCollected,
                explosions, messages, enableJumpCalls, fired>>

\* part_004: setTimeout(() => { isProcessingCollision = false }, 1000)
ResetTimerFires(u) ==
    /\ resetTimer[u]
    /\ resetTimer' = [resetTimer EXCEPT ![u] = FALSE]
    /\ isProcessingCollision' = [isProcessingCollision EXCEPT ![u] = FALSE]
    /\ TimerFrame
    /\ UNCHANGED <<observerActive, disposals, disposeTimer, cleanupTimer>>

\* part_004: the 100 ms clean-up timer disposes the trigger box and removes
\* the observer
CleanupTimerFires(u) ==
    /\ cleanupTimer[u]
    /\ cleanupTimer' = [cleanupTimer EXCEPT ![u] = FALSE]
    /\ observerActive' = [observerActive EXCEPT ![u] = FALSE]
    /\ TimerFrame
    /\ UNCHANGED <<isProcessingCollision, disposals, disposeTimer, resetTimer>>

\* src/modelLoader.js: the 1000 ms timer removes the mesh unless it is
\* disposed already
DisposeTimerFires(u) ==
    /\ disposeTimer[u]
    /\ disposeTimer' = [disposeTimer EXCEPT ![u] = FALSE]
    /\ disposals' = IF disposals[u] = 0 THEN [disposals EXCEPT ![u] = @ + 1]
                    ELSE disposals
    /\ TimerFrame
    /\ UNCHANGED <<isProcessingCollision, observerActive, cleanupTimer, resetTimer>>

(***************************************************************************)
(* BubbleSystem (second revision).  Lifetimes in ms, emit times in         *)
(* microseconds, alpha in permille.                                        *)
(***************************************************************************)
\* this.options, with the constructor's defaults
BubbleOptions == [emitRate |-> 30, maxBubbles |-> MaxBubblesOption,
                  minLifetime |-> 800, maxLifetime |-> 2000]

\* the pool: poolSize = this.options.maxBubbles spheres
Spheres == 1 .. BubbleOptions.maxBubbles

\* sphere.material = this.material, the one material of the system
SphereMaterial == [s \in Spheres |-> "bubbleMat"]

Materials == {"bubbleMat"}

\* minLifetime + Math.random() * (maxLifetime - minLifetime)
BubbleLifetimes == {BubbleOptions.minLifetime,
                    (BubbleOptions.minLifetime + BubbleOptions.maxLifetime) \div 2}

\* color.a * (0.7 + Math.random() * 0.3), color.a between 0.4 and 0.7
EmitAlphas == {280, 700}

\* deltaTime (ms) given to update: 20 fps, 10 fps, and a stalled frame
BubbleDeltaTimes == {50, 100, 250}

\* shipSpeed: at rest and at speed 10
BubbleSpeeds == {0, 10000}

\* 0.3 + 0.7 * lifeRatio, lifeRatio = clamp(lifetime / (maxLifetime || 1))
FadeAlpha(lifetime, maxLifetime) ==
    LET lifeRatio == Max(0, Min(1000, (lifetime * 1000) \div maxLifetime))
    IN  300 + (700 * lifeRatio) \div 1000

SetAlpha(alpha, sphere, a) == [alpha EXCEPT ![SphereMaterial[sphere]] = a]

\* the sequence without its i-th element (bubbles.splice(i, 1))
Splice(seq, i) == SubSeq(seq, 1, i - 1) \o SubSeq(seq, i + 1, Len(seq))

\* emitBubble.  b: the system's arrays, pool and materials; lifetime, a: the
\* random lifetime and the random alpha of this emission.
EmitBubble(b, lifetime, a) ==
    IF \/ Len(b.left) >= BubbleOptions.maxBubbles
       \/ Len(b.right) >= BubbleOptions.maxBubbles
       \/ Len(b.pool) < 2
       THEN b
       ELSE LET sphereLeft == b.pool[Len(b.pool)]
                sphereRight == b.pool[Len(b.pool) - 1]
                particle(sphere) == [lifetime |-> lifetime, maxLifetime |-> lifetime,
                                     sphere |-> sphere]
            IN  [b EXCEPT
                    !.left = Append(b.left, particle(sphereLeft)),
                    !.right = Append(b.right, particle(sphereRight)),
                    !.pool = SubSeq(b.pool, 1, Len(b.pool) - 2),
                    !.alpha = SetAlpha(SetAlpha(b.alpha, sphereLeft, a), sphereRight, a),
                    !.emitted = b.emitted + 1]

RECURSIVE EmitLoop(_, _, _, _, _)
\* while (this.timeSinceLastEmit >= emitInterval) { emitBubble(); ... }
\* The first emission of a frame draws lifetimes[1], the later ones lifetimes[2].
EmitLoop(b, time, emitInterval, lifetimes, a) ==
    IF time >= emitInterval
       THEN EmitLoop(EmitBubble(b, lifetimes[IF b.emitted = 0 THEN 1 ELSE 2], a),
                     time - emitInterval, emitInterval, lifetimes, a)
       ELSE [b EXCEPT !.time = time]

RECURSIVE UpdateBubbleArrayFrom(_, _, _, _, _)
\* updateBubbleArray's loop: for (let i = bubbles.length - 1; i >= 0; i--)
UpdateBubbleArrayFrom(i, bubbles, pool, alpha, cappedDeltaTime) ==
    IF i = 0
       THEN [bubbles |-> bubbles, pool |-> pool, alpha |-> alpha]
       ELSE LET particle == bubbles[i]
                lifetime == particle.lifetime - cappedDeltaTime
            IN  IF lifetime <= 0
                   THEN UpdateBubbleArrayFrom(i - 1, Splice(bubbles, i),
                                              Append(pool, particle.sphere),
                                              alpha, cappedDeltaTime)
                   ELSE UpdateBubbleArrayFrom(
                            i - 1,
                            [bubbles EXCEPT ![i].lifetime = lifetime],
                            pool,
                            SetAlpha(alpha, particle.sphere,
                                     FadeAlpha(lifetime, particle.maxLifetime)),
                            cappedDeltaTime)

\* updateBubbleArray(bubbles, deltaTime)
UpdateBubbleArray(bubbles, pool, alpha, deltaTime) ==
    UpdateBubbleArrayFrom(Len(bubbles), bubbles, pool, alpha, Min(deltaTime, 100))

\* 1 / (emitRate * speedFactor), speedFactor = 1 + min(1, shipSpeed / 10)
EmitInterval(shipSpeed) ==
    LET speedFactor == 1000 + Min(1000, shipSpeed \div 10)
    IN  1000000000 \div (BubbleOptions.emitRate * speedFactor)

\* BubbleSystem.update(deltaTime)
BubbleUpdate(dt, shipSpeed, lifetimes, a) ==
    /\ bubbleFrames < MaxBubbleFrames
    /\ bubbleFrames' = bubbleFrames + 1
    /\ LET before == [left |-> leftBubbles, right |-> rightBubbles,
                      pool |-> spherePool, alpha |-> materialAlpha,
                      emitted |-> 0, time |-> 0]
           emitted == IF shipSpeed > 100
                         THEN EmitLoop(before, timeSinceLastEmit + dt * 1000,
                                       EmitInterval(shipSpeed), lifetimes, a)
                         ELSE before
           left == UpdateBubbleArray(emitted.left, emitted.pool, emitted.alpha, dt)
           right == UpdateBubbleArray(emitted.right, left.pool, left.alpha, dt)
       IN  /\ timeSinceLastEmit' = emitted.time
           /\ leftBubbles' = left.bubbles
           /\ rightBubbles' = right.bubbles
           /\ spherePool' = right.pool
           /\ materialAlpha' = right.alpha
    /\ UNCHANGED <<shipVars, boundVars, loadVars, upgradeVars, trailVars,
                   triggerVars>>

(***************************************************************************)
(* WaterTrail.  Lengths and speeds in fixed point, deltaTime in ms.        *)
(***************************************************************************)
\* this.options, with the constructor's defaults
TrailOptions == [minSpeed |-> 10, trailLength |-> 3000, maxLength |-> 100000]

\* The gap between two frames (ms), measured with performance.now() and not
\* capped: 60 fps, 10 fps, and a frame after the tab was in the background.
TrailDeltaTimes == {16, 100, 1000}

\* ship.getSpeed(): at rest, slow, fast
TrailSpeeds == {0, 1000, 10000}

\* WaterTrail.update(deltaTime)
TrailUpdate(dt, shipSpeed) ==
    /\ trailFrames < MaxTrailFrames
    /\ trailFrames' = trailFrames + 1
    /\ LET speed == Abs(shipSpeed)
           isMoving == speed > TrailOptions.minSpeed
           targetLength == Min(Scaled(TrailOptions.trailLength, speed \div 2 + 500),
                               TrailOptions.maxLength)
       IN  IF isMoving
              THEN /\ trailLength' = Lerp(trailLength, targetLength, dt * 2)
                   /\ trailEnabled' = TRUE
              ELSE /\ trailLength' = Lerp(trailLength, 0, dt * 2)
                   /\ trailEnabled' = IF trailLength' < 100 THEN FALSE ELSE trailEnabled
    /\ UNCHANGED <<shipVars, boundVars, loadVars, upgradeVars, bubbleVars,
                   triggerVars>>

(***************************************************************************)
(* Trigger meshes: setupTrigger of src/modelLoader.js and the callbacks it *)
(* registers.  Callbacks run to completion, one at a time.                 *)
(***************************************************************************)
Triggers == {"t1", "t2"}

\* modelData.properties of a trigger object: has it a message, an onTrigger
TriggerProperties == [message : BOOLEAN, onTrigger : BOOLEAN]

\* this.mainModel._collider || this.mainModel at set-up time: a collider with
\* a physics impostor, one without, or no main model yet (reading _collider
\* of null throws, which ends setupTrigger)
ShipColliders == {"impostor", "noImpostor", "noMainModel"}

\* a mesh as the import made it, and what is counted about it
NewTriggerMesh ==
    [isTrigger |-> FALSE, isCollected |-> FALSE, actionManager |-> FALSE,
     intersectionActions |-> 0, beforeRenderObservers |-> 0,
     physicsCollide |-> FALSE, hasMessage |-> FALSE, hasOnTrigger |-> FALSE,
     messages |-> 0, executions |-> 0, cleanupsScheduled |-> 0,
     cleanupTimers |-> 0, disposed |-> FALSE]

\* onTriggerActivated without its "Prevent multiple triggers" test
TriggerNeverActivated(flag) == FALSE

\* onTriggerActivated: if (triggerMesh.isCollected) return
TriggerAlreadyActivated(flag) == flag

\* onTriggerActivated: message, onTrigger function, setTimeout(cleanupTrigger)
OnTriggerActivated(m) ==
    IF TriggerAlreadyActivated(m.isCollected)
       THEN m
       ELSE [m EXCEPT !.isCollected = TRUE,
                      !.messages = IF m.hasMessage THEN @ + 1 ELSE @,
                      !.executions = IF m.hasOnTrigger THEN @ + 1 ELSE @,
                      !.cleanupsScheduled = @ + 1,
                      !.cleanupTimers = @ + 1]

\* setupActionManager: one more intersection action, one more per-frame check
SetupActionManager(m) ==
    [m EXCEPT !.actionManager = TRUE,
              !.intersectionActions = @ + 1,
              !.beforeRenderObservers = @ + 1]

\* setupTrigger(triggerMesh, modelData)
SetupTriggerMesh(m, properties, shipCollider) ==
    LET first == SetupActionManager(
                     [m EXCEPT !.isTrigger = TRUE, !.isCollected = FALSE,
                               !.hasMessage = properties.message,
                               !.hasOnTrigger = properties.onTrigger])
    IN  CASE shipCollider = "impostor" -> [first EXCEPT !.physicsCollide = TRUE]
          [] shipCollider = "noImpostor" -> SetupActionManager(first)
          [] shipCollider = "noMainModel" -> first

RECURSIVE RunIntersectionActions(_, _)
\* the action manager runs its n registered ExecuteCodeActions in turn
RunIntersectionActions(m, n) ==
    IF n = 0 THEN m ELSE RunIntersectionActions(OnTriggerActivated(m), n - 1)

RECURSIVE RunBeforeRenderObservers(_, _)
\* the scene runs the n registered per-frame checks in turn, the trigger
\* intersecting the player
RunBeforeRenderObservers(m, n) ==
    IF n = 0
       THEN m
       ELSE RunBeforeRenderObservers(
                IF m.isCollected \/ ~m.actionManager THEN m ELSE OnTriggerActivated(m),
                n - 1)

\* what a callback of a trigger leaves alone
TriggerFrame ==
    UNCHANGED <<shipVars, boundVars, loadVars, upgradeVars, bubbleVars, trailVars>>

\* a detection callback is delivered
TriggerDetected ==
    /\ triggerEvents < MaxTriggerEvents
    /\ triggerEvents' = triggerEvents + 1
    /\ TriggerFrame

\* configureModel finds 'is-trigger' and calls setupTrigger(root, modelData)
SetupTrigger(t, properties, shipCollider) ==
    /\ ~triggerMesh[t].isTrigger
    /\ triggerMesh' = [triggerMesh EXCEPT
                          ![t] = SetupTriggerMesh(@, properties, shipCollider)]
    /\ UNCHANGED triggerEvents
    /\ TriggerFrame

\* the player enters the trigger: OnIntersectionEnterTrigger
TriggerIntersectionEnter(t) ==
    /\ triggerMesh[t].actionManager
    /\ TriggerDetected
    /\ triggerMesh' = [triggerMesh EXCEPT
                          ![t] = RunIntersectionActions(@, @.intersectionActions)]

\* a frame in which the trigger intersects the player: registerBeforeRender
TriggerBeforeRender(t) ==
    /\ triggerMesh[t].beforeRenderObservers > 0
    /\ TriggerDetected
    /\ triggerMesh' = [triggerMesh EXCEPT
                          ![t] = RunBeforeRenderObservers(@, @.beforeRenderObservers)]

\* the registerOnPhysicsCollide callback
TriggerPhysicsCollide(t) ==
    /\ triggerMesh[t].physicsCollide
    /\ TriggerDetected
    /\ triggerMesh' = [triggerMesh EXCEPT
                          ![t] = IF ~@.isCollected THEN OnTriggerActivated(@) ELSE @]

\* cleanupTrigger, 1000 ms after an activation: the impostor, the action
\* manager and the mesh are disposed
TriggerCleanupFires(t) ==
    /\ triggerMesh[t].cleanupTimers > 0
    /\ triggerMesh' = [triggerMesh EXCEPT
                          ![t] = [@ EXCEPT !.cleanupTimers = @ - 1,
                                           !.physicsCollide = FALSE,
                                           !.actionManager = FALSE,
                                           !.disposed = TRUE]]
    /\ UNCHANGED triggerEvents
    /\ TriggerFrame

(***************************************************************************)
(* Initial state: the page has loaded its scripts; nothing is constructed  *)
(* but the scene, the ModelLoader, the bubble system and the wake trail.   *)
(***************************************************************************)
\* app.js before loadShip has run
InitControls ==
    /\ constructed = FALSE
    /\ options = NoOptions
    /\ enabled = FALSE
    /\ settings = ConstructorSettings(NoOptions)
    /\ keys = NoKeys
    /\ targetSpeed = 0
    /\ currentSpeed = 0
    /\ currentRotationSpeed = 0
    /\ angularVelocity = 0
    /\ jumpEnabled = FALSE
    /\ isJumping = FALSE
    /\ jumpForce = 0
    /\ jumpForceActive = FALSE
    /\ impulses = 0
    /\ isShipReady = FALSE
    /\ keyEvents = 0
    /\ frames = 0
    /\ heldFrames = 0

\* the DOMContentLoaded handler has created the scene and the ModelLoader and
\* waits for the world file
InitLoader ==
    /\ boot = "fetch"
    /\ loadModel = [o \in Objects |-> "idle"]
    /\ calls = [c \in Calls |-> "idle"]
    /\ mainModel = "none"
    /\ pop = [o \in Objects |-> "none"]
    /\ renderLoops = 0

\* the upgrades after setupUpgradeJump and setupUpgradeCollisions
InitUpgrades ==
    /\ isCollected = [u \in Upgrades |-> FALSE]
    /\ isProcessingCollision = [u \in Upgrades |-> FALSE]
    /\ observerActive = [u \in Upgrades |-> loaderRev = "part_004"]
    /\ explosions = [u \in Upgrades |-> 0]
    /\ messages = [u \in Upgrades |-> 0]
    /\ enableJumpCalls = [u \in Upgrades |-> 0]
    /\ disposals = [u \in Upgrades |-> 0]
    /\ disposeTimer = [u \in Upgrades |-> FALSE]
    /\ cleanupTimer = [u \in Upgrades |-> FALSE]
    /\ resetTimer = [u \in Upgrades |-> FALSE]
    /\ fired = [u \in Upgrades |-> 0]

\* new BubbleSystem(scene, ship, options)
InitBubbles ==
    /\ leftBubbles = <<>>
    /\ rightBubbles = <<>>
    /\ spherePool = [i \in Spheres |-> i]
    /\ materialAlpha = [m \in Materials |-> 800]
    /\ timeSinceLastEmit = 0
    /\ bubbleFrames = 0

\* new WaterTrail(scene, ship): this.trail.length = this.options.trailLength
InitTrail ==
    /\ trailLength = TrailOptions.trailLength
    /\ trailEnabled = TRUE
    /\ trailFrames = 0

\* no trigger mesh has been configured yet
InitTriggers ==
    /\ triggerMesh = [t \in Triggers |-> NewTriggerMesh]
    /\ triggerEvents = 0

InitScene == InitLoader /\ InitUpgrades /\ InitBubbles /\ InitTrail /\ InitTriggers

(***************************************************************************)
(* The ship on its own: construction, enabling, keys and frames.           *)
(***************************************************************************)
InitShip ==
    /\ rev \in {1, 2}
    /\ loaderRev = "modelLoader"
    /\ InitControls
    /\ InitScene

NextShip ==
    \/ Construct
    \/ EnableShipControls
    \/ EnableJumpAbility
    \/ \E key \in EventKeys, onSurface \in BOOLEAN : KeyDown(key, onSurface)
    \/ \E key \in EventKeys : KeyUp(key)
    \/ \E dt \in DeltaTimes, forceOver \in BOOLEAN, landed \in BOOLEAN :
          Frame(dt, forceOver, landed)

SpecShip == InitShip /\ [][NextShip]_vars

(***************************************************************************)
(* The ship's speed: W and S only, runs of any length.                     *)
(***************************************************************************)
SpeedKeys == {"w", "s"}

NextSpeed ==
    \/ Construct
    \/ EnableShipControls
    \/ \E key \in SpeedKeys : keyEvents < MaxSpeedKeyEvents /\ KeyDown(key, TRUE)
    \/ \E key \in SpeedKeys : keyEvents < MaxSpeedKeyEvents /\ KeyUp(key)
    \/ \E dt \in SteadyDeltaTimes : SpeedFrame(dt)

SpecSpeed == InitShip /\ [][NextSpeed]_vars


\* The render loop runs a frame again and again.
FairShip == SpecSpeed /\ WF_vars(\E dt \in SteadyDeltaTimes : SpeedFrame(dt))

(***************************************************************************)
(* Start-up: the world and the ship load, pop in and enable the controls.  *)
(***************************************************************************)
InitLoad ==
    /\ rev = 2
    /\ loaderRev \in LoaderRevs
    /\ InitControls
    /\ InitScene

NextLoad ==
    \/ \E ok \in BOOLEAN : WorldFetched(ok)
    \/ \E exists \in BOOLEAN : ShipFileChecked(exists)
    \/ \E o \in Objects, ok \in BOOLEAN : ImportSettles(o, ok)
    \/ \E o \in Objects : PopFinishes(o)
    \/ \E o \in Objects : PopTimerFires(o)

SpecLoad == InitLoad /\ [][NextLoad]_vars

(***************************************************************************)
(* Upgrades: callbacks, direct calls and timers in any order, before or    *)
(* after the ShipControls exist.                                           *)
(***************************************************************************)
NextUpgrade ==
    \/ Construct
    \/ \E u \in Upgrades, throws \in BOOLEAN : IntersectionEnter(u, throws)
    \/ \E u \in Upgrades, throws \in BOOLEAN : PhysicsCollide(u, throws)
    \/ \E u \in Upgrades, throws \in BOOLEAN : DirectCollect(u, throws)
    \/ \E u \in Upgrades, throws \in BOOLEAN : TriggerObserver(u, throws)
    \/ \E u \in Upgrades : ResetTimerFires(u)
    \/ \E u \in Upgrades : CleanupTimerFires(u)
    \/ \E u \in Upgrades : DisposeTimerFires(u)

SpecUpgrade == InitLoad /\ [][NextUpgrade]_vars

(***************************************************************************)
(* The bubble wash.                                                        *)
(***************************************************************************)
InitApp ==
    /\ rev = 2
    /\ loaderRev = "modelLoader"
    /\ InitControls
    /\ InitScene

NextBubbles ==
    \E dt \in BubbleDeltaTimes, shipSpeed \in BubbleSpeeds,
       l1 \in BubbleLifetimes, l2 \in BubbleLifetimes, a \in EmitAlphas :
          BubbleUpdate(dt, shipSpeed, <<l1, l2>>, a)

SpecBubbles == InitApp /\ [][NextBubbles]_vars

(***************************************************************************)
(* The wake trail.                                                         *)
(***************************************************************************)
NextTrail == \E dt \in TrailDeltaTimes, shipSpeed \in TrailSpeeds : TrailUpdate(dt, shipSpeed)

SpecTrail == InitApp /\ [][NextTrail]_vars

(***************************************************************************)
(* The trigger meshes of the world.                                        *)
(***************************************************************************)
NextTrigger ==
    \/ \E t \in Triggers, properties \in TriggerProperties,
          shipCollider \in ShipColliders : SetupTrigger(t, properties, shipCollider)
    \/ \E t \in Triggers : TriggerIntersectionEnter(t)
    \/ \E t \in Triggers : TriggerBeforeRender(t)
    \/ \E t \in Triggers : TriggerPhysicsCollide(t)
    \/ \E t \in Triggers : TriggerCleanupFires(t)

SpecTrigger == InitApp /\ [][NextTrigger]_vars

(***************************************************************************)
(* C1.  Ship speed is clamped to max speed: targetSpeed and currentSpeed   *)
(* both stay within [-maxSpeed/2, maxSpeed].                               *)
(***************************************************************************)
InSpeedRange(x) == -(settings.maxSpeed \div 2) <= x /\ x <= settings.maxSpeed

C1_SpeedClamped == constructed => InSpeedRange(targetSpeed) /\ InSpeedRange(currentSpeed)

(***************************************************************************)
(* C2.  The ship decelerates to rest: if from some frame on neither W nor  *)
(* S is held while the controls are enabled and frames keep being          *)
(* rendered, then eventually currentSpeed is 0 and stays 0.                *)
(***************************************************************************)
Released == constructed /\ enabled /\ isShipReady /\ ~keys["w"] /\ ~keys["s"]

C2_DeceleratesToRest == <>[]Released => <>[](currentSpeed = 0)

(***************************************************************************)
(* C3.  Once loadShip has created the ShipControls and the ship's pop-in   *)
(* animation and its enable timer have run, the controls are enabled and   *)
(* isShipReady is true, whatever the order of world loads, pop-in timers   *)
(* and ship loading.  (window.enableShipControls acts only while           *)
(* isShipReady is false, and the ship's timer leaves it true: controls     *)
(* that are disabled at that point stay disabled.)                         *)
(***************************************************************************)
C3_ControlsEnabled ==
    (constructed /\ pop["s0"] = "done") => (enabled /\ isShipReady)

(***************************************************************************)
(* C4.  After each BubbleSystem.update() every live bubble is rendered     *)
(* with the alpha of its own lifetime ratio, 0.3 + 0.7 * ratio: the alpha  *)
(* of its sphere's material is that value.                                 *)
(***************************************************************************)
OwnAlpha(particle) ==
    materialAlpha[SphereMaterial[particle.sphere]]
        = FadeAlpha(particle.lifetime, particle.maxLifetime)

C4_BubblesFadeByOwnLifetime ==
    /\ \A i \in 1 .. Len(leftBubbles) : OwnAlpha(leftBubbles[i])
    /\ \A i \in 1 .. Len(rightBubbles) : OwnAlpha(rightBubbles[i])

(***************************************************************************)
(* C5.  After every WaterTrail.update(deltaTime), whatever the frame gap,  *)
(* 0 <= trail.length <= options.maxLength.                                 *)
(***************************************************************************)
C5_TrailLengthInRange == 0 <= trailLength /\ trailLength <= TrailOptions.maxLength

(***************************************************************************)
(* C6.  While ship controls are disabled, a keydown or keyup changes       *)
(* nothing except the pressed-key map: no jump starts, no impulse is       *)
(* applied, angularVelocity does not change.                               *)
(***************************************************************************)
KeyEventStep == keyEvents' # keyEvents

C6_DisabledKeysInert ==
    [][(constructed /\ ~enabled /\ KeyEventStep) =>
          UNCHANGED <<enabled, settings, targetSpeed, currentSpeed,
                      currentRotationSpeed, angularVelocity, jumpEnabled,
                      isJumping, jumpForce, jumpForceActive, impulses>>]_vars

(***************************************************************************)
(* C7.  Movement settings passed to the ShipControls constructor take      *)
(* effect: update() works with exactly the values of the options.          *)
(***************************************************************************)
MovementOptions == {"maxSpeed", "speed", "acceleration", "deceleration",
                    "rotationAcceleration", "rotationDeceleration",
                    "baseRotationSpeed"}

C7_OptionsTakeEffect ==
    constructed =>
        \A f \in MovementOptions \cap DOMAIN options : settings[f] = options[f]

(***************************************************************************)
(* C8.  An upgrade is collected at most once: whatever callbacks and       *)
(* direct calls fire on it, and however often, the explosion effect, the   *)
(* player message, the enableJumpAbility call and the disposal of the mesh *)
(* each happen at most once per upgrade.                                   *)
(***************************************************************************)
C8_CollectedAtMostOnce ==
    \A u \in Upgrades :
        /\ explosions[u] <= 1
        /\ messages[u] <= 1
        /\ enableJumpCalls[u] <= 1
        /\ disposals[u] <= 1

\* an upgrade was collected, with all its effects, and callbacks fired on it
\* again afterwards
C8_Witness ==
    \E u \in Upgrades :
        /\ isCollected[u] /\ explosions[u] = 1 /\ disposals[u] = 1
        /\ fired[u] = MaxFirings

(***************************************************************************)
(* C9.  The ship cannot jump before the jump ability is unlocked:          *)
(* isJumping implies jumpEnabled; jumpEnabled becomes true only in a step  *)
(* of window.enableJumpAbility; a space keydown with jumpEnabled false     *)
(* changes no jump state and applies no impulse.                           *)
(***************************************************************************)
SpaceKeyDown == \E onSurface \in BOOLEAN : KeyDown(" ", onSurface)

C9_NoJumpBeforeUnlock ==
    /\ [](constructed => (isJumping => jumpEnabled))
    /\ [][(~jumpEnabled /\ jumpEnabled') => EnableJumpAbility]_vars
    /\ [][(~jumpEnabled /\ SpaceKeyDown) =>
             UNCHANGED <<isJumping, jumpForce, jumpForceActive, impulses>>]_vars

\* space was pressed on a surface, with the controls enabled, while the jump
\* ability was still locked
C9_Witness ==
    /\ constructed /\ enabled /\ rev = 2
    /\ keys["space"] /\ ~jumpEnabled /\ ~isJumping /\ impulses = 0

(***************************************************************************)
(* C10.  A model that fails to load is isolated: its loadModel promise     *)
(* resolves (to null) and the loadModelsFromJson call it belongs to        *)
(* resolves; neither rejects.                                              *)
(***************************************************************************)
C10_FailedLoadIsolated ==
    /\ \A o \in Objects : loadModel[o] # "rejected"
    /\ \A c \in Calls : calls[c] # "rejected"

(***************************************************************************)
(* C11.  maxBubbles is a per-side limit: emitBubble adds one bubble to the *)
(* left list and one to the right list whenever both lists hold fewer than *)
(* maxBubbles bubbles, and adds none otherwise; neither list ever holds    *)
(* more than maxBubbles bubbles.  Stated of an emitBubble call made in the *)
(* current state of the system.                                            *)
(***************************************************************************)
C11_PerSideLimit ==
    LET b == [left |-> leftBubbles, right |-> rightBubbles,
              pool |-> spherePool, alpha |-> materialAlpha,
              emitted |-> 0, time |-> 0]
        after == EmitBubble(b, BubbleOptions.minLifetime, 700)
        room == /\ Len(leftBubbles) < BubbleOptions.maxBubbles
                /\ Len(rightBubbles) < BubbleOptions.maxBubbles
    IN  /\ Len(leftBubbles) <= BubbleOptions.maxBubbles
        /\ Len(rightBubbles) <= BubbleOptions.maxBubbles
        /\ room => /\ Len(after.left) = Len(leftBubbles) + 1
                   /\ Len(after.right) = Len(rightBubbles) + 1
        /\ ~room => /\ after.left = leftBubbles
                    /\ after.right = rightBubbles

(***************************************************************************)
(* C12.  loadShip starts the render loop exactly once on every path: no    *)
(* render loop runs before loadShip has settled, and once it has, whether  *)
(* with the ship or with the fallback box, engine.runRenderLoop has been   *)
(* called exactly one time.  loadShip has no outcome other than resolving: *)
(* every way out of its try block ends in boot = "done".                   *)
(***************************************************************************)
C12_RenderLoopStartedOnce ==
    /\ renderLoops <= 1
    /\ boot = "done" <=> renderLoops = 1
    /\ calls["ship"] \in {"resolved", "rejected"} => boot = "done"

\* loadModelsFromJson rejected inside loadShip: the catch block made the
\* fallback box and started the render loop, and no ShipControls exist
C12_Witness ==
    /\ boot = "done"
    /\ calls["ship"] = "rejected"
    /\ ~constructed
    /\ renderLoops = 1

(***************************************************************************)
(* C13.  Interpolation toward the target speed never overshoots: in every  *)
(* update() with |targetSpeed| > 0.01, the new currentSpeed lies between   *)
(* the previous currentSpeed and targetSpeed (inclusive), whatever the     *)
(* frame time.                                                             *)
(***************************************************************************)
\* this step is an update() whose targetSpeed is above the 0.01 threshold
AcceleratingUpdate == frames' = frames + 1 /\ Abs(targetSpeed') > 10

C13_NoOvershoot ==
    [][AcceleratingUpdate =>
          /\ Min(currentSpeed, targetSpeed') <= currentSpeed'
          /\ currentSpeed' <= Max(currentSpeed, targetSpeed')]_vars

(***************************************************************************)
(* C14.  Touching an upgrade collects it: in the trigger-box revision, the *)
(* frame in which the observer finds the trigger box intersecting the      *)
(* player while the upgrade is uncollected performs collectUpgrade's       *)
(* effects for that upgrade (the explosion effect is created) and          *)
(* schedules the clean-up of the trigger box and outline.                  *)
(***************************************************************************)
\* this step is the observer of u detecting the player, u uncollected
TriggerTouched(u) ==
    /\ loaderRev = "part_004"
    /\ observerActive[u]
    /\ ~isProcessingCollision[u]
    /\ isProcessingCollision'[u]
    /\ ~isCollected[u]

C14_TouchCollects ==
    [][\A u \in Upgrades :
          TriggerTouched(u) => /\ explosions'[u] = explosions[u] + 1
                               /\ cleanupTimer'[u]]_vars

(***************************************************************************)
(* C15.  Collecting a jump upgrade unlocks jumping: in the trigger-box     *)
(* revision, when collectUpgrade runs (past its "already collected" test)  *)
(* on a mesh that configureModel built from properties with the key        *)
(* 'upgrade-jump', window.enableJumpAbility is called, and jumpEnabled is  *)
(* true afterwards if the ship controls exist.                             *)
(***************************************************************************)
\* this step is collectUpgrade of part_004 running for upgrade u
CollectUpgradeRuns(u) ==
    /\ loaderRev = "part_004"
    /\ ~isCollected[u]
    /\ isCollected'[u]
    /\ explosions'[u] = explosions[u] + 1

C15_JumpUpgradeUnlocksJump ==
    [][\A u \in Upgrades :
          CollectUpgradeRuns(u) =>
              /\ enableJumpCalls'[u] = enableJumpCalls[u] + 1
              /\ constructed => jumpEnabled']_vars

(***************************************************************************)
(* C16.  A trigger fires at most once: for each trigger mesh, whatever the *)
(* interleaving of its detection paths (intersection action, per-frame     *)
(* fallback, physics-collide callback, doubly registered or not), the      *)
(* player message is shown at most once, the onTrigger function is         *)
(* executed at most once, and the clean-up is scheduled at most once.      *)
(***************************************************************************)
C16_TriggerFiresOnce ==
    \A t \in Triggers :
        /\ triggerMesh[t].messages <= 1
        /\ triggerMesh[t].executions <= 1
        /\ triggerMesh[t].cleanupsScheduled <= 1

\* a trigger with doubly registered detection has been activated, with its
\* message and its function, and detections were delivered more than once
C16_Witness ==
    \E t \in Triggers :
        /\ triggerMesh[t].beforeRenderObservers = 2
        /\ triggerMesh[t].intersectionActions = 2
        /\ triggerMesh[t].messages = 1
        /\ triggerMesh[t].executions = 1
        /\ triggerMesh[t].cleanupsScheduled = 1
        /\ triggerEvents >= 2
        /\ \A o \in Triggers \ {t} : ~triggerMesh[o].isTrigger

=============================================================================
